---- MODULE Spec2Model ----
(***************************************************************************)
(* Model of 4_airflow/mlflow_dag.py: the DSGo DAG.  Five PythonOperator    *)
(* tasks (process_data, model_lr, model_rf, get_best_model,                *)
(* register_best_model) run under the Airflow scheduler, hand run ids to   *)
(* each other through XCom and record runs, metrics and model versions in  *)
(* the MLflow tracking service.                                            *)
(*                                                                         *)
(* One action is one call of a task callable to the tracking service or   *)
(* to XCom (the local computation that precedes the call is part of the    *)
(* action).  The three log_metric calls and log_model of a trainer write   *)
(* to the task's own open run and are one action.  DAG runs are created    *)
(* one after the other (the schedule is daily).                            *)
(*                                                                         *)
(* Spec is one DAG run in which any statement may raise.  SpecRuns is a    *)
(* sequence of DAG runs in which no statement raises.  What fitting a      *)
(* model on germany.csv yields is not known to the pipeline: fit is drawn  *)
(* at Init.  SpecSel applies get_best_model and register_best_model to     *)
(* run id lists and tracking-service contents drawn from bounded sets.     *)
(***************************************************************************)
EXTENDS Integers, Sequences, FiniteSets, TLC

\* ------------------------------------------------------------------ bounds
MaxExec == 2      \* DAG runs (pipeline executions) the scheduler creates
MaxR2 == 1        \* the r2 metric of a fitted model is one of 0..MaxR2
MaxStored == 2    \* SpecSel: runs in the tracking service; run id MaxStored + 1 is missing
MaxList == 2      \* SpecSel: longest run id list get_best_model finds under model_rf

Execs == 1..MaxExec
R2Vals == 0..MaxR2

\* ------------------------------------------------------- the DAG (l.130-139)
Tasks == {"process_data", "model_lr", "model_rf", "get_best_model", "register_best_model"}

Trainers == {"model_lr", "model_rf"}

\* variant: get_best_model wired to model_lr only
UpstreamNoJoin(t) ==
    CASE t = "process_data" -> {}
      [] t = "model_lr" -> {"process_data"}
      [] t = "model_rf" -> {"process_data"}
      [] t = "get_best_model" -> {"model_lr"}
      [] t = "register_best_model" -> {"get_best_model"}

\* variant: no task wired to another
UpstreamNone(t) == {}

Upstream(t) ==
    CASE t = "process_data" -> {}
      [] t = "model_lr" -> {"process_data"}
      [] t = "model_rf" -> {"process_data"}
      [] t = "get_best_model" -> {"model_lr", "model_rf"}
      [] t = "register_best_model" -> {"get_best_model"}

\* first statement of each python_callable
Entry(t) ==
    CASE t = "process_data" -> "start_run"
      [] OTHER -> "xcom_pull"

\* make_rf's grid: for n_estimators in [4, 25]: for max_depth in [4, 10]
NEstimators == <<4, 25>>
MaxDepths == <<4, 10>>
GridSize == Len(NEstimators) * Len(MaxDepths)
\* variant: the loops nested the other way round
GridDepthOuter(i) == << NEstimators[((i - 1) % Len(NEstimators)) + 1],
                        MaxDepths[((i - 1) \div Len(NEstimators)) + 1] >>

Grid(i) == << NEstimators[((i - 1) \div Len(MaxDepths)) + 1],
              MaxDepths[((i - 1) % Len(MaxDepths)) + 1] >>

VARIABLES
    schedule,   \* number of DAG runs the scheduler creates in the observed window
    fit,        \* fit[0]: r2 of the linear model, fit[i]: r2 of the forest of Grid(i)
    dagruns,    \* number of DAG runs created so far; DAG run e is execution e
    ti,         \* ti[e][t]: state of the task instance of task t in DAG run e
    pc,         \* pc[e][t]: next statement of the running callable
    data,       \* data[e][t]: value the callable got from xcom_pull (a list of run ids)
    active,     \* active[e][t]: run id of the callable's open mlflow run, 0 if none
    acc,        \* acc[e][t]: make_rf's runs list / get_best_model's best run / the registered version
    xcom,       \* the XCom table: rows [exec, task, key, value]
    runs,       \* tracking service: runs[id] is the Run with run id id (a function)
    versions,   \* model registry: versions[v] is version v of "BestModel"
    pushed,     \* history: number of xcom_push calls per <<exec, task, key>>
    reads,      \* history: xcom_pull calls, with the row each returned
    derefs      \* history: run ids handed to the tracking service, with the run's status then

vars == <<schedule, fit, dagruns, ti, pc, data, active, acc, xcom, runs, versions, pushed, reads, derefs>>

Keys == {"run_id", "best_model_run_id"}

\* ---------------------------------------------------------------- helpers
Terminal == {"success", "failed", "upstream_failed"}

DagRunFinished(e) == \A t \in Tasks : ti[e][t] \in Terminal

\* variant: the lists are joined last first
RECURSIVE FlattenReversed(_)
FlattenReversed(ss) == IF ss = <<>> THEN <<>> ELSE FlattenReversed(Tail(ss)) \o Head(ss)

RECURSIVE Flatten(_)
Flatten(ss) == IF ss = <<>> THEN <<>> ELSE Head(ss) \o Flatten(Tail(ss))

Range(s) == {s[i] : i \in DOMAIN s}

\* variant: rows are keyed by (execution, key) only
XComSetByKey(tab, e, t, k, v) ==
    {r \in tab : ~(r.exec = e /\ r.key = k)}
        \cup {[exec |-> e, task |-> t, key |-> k, value |-> v]}

\* XCom.set: delete the row with the same (execution, task, key), insert the new one
XComSet(tab, e, t, k, v) ==
    {r \in tab : ~(r.exec = e /\ r.task = t /\ r.key = k)}
        \cup {[exec |-> e, task |-> t, key |-> k, value |-> v]}

\* rows xcom_pull(task_ids=t, key=k) sees from DAG run e: same execution date only
XComRows(tab, e, t, k) == {r \in tab : r.exec = e /\ r.task = t /\ r.key = k}

\* the tracking service creates a Run and hands out a fresh run id
NewRun(e, t, name) ==
    [name |-> name, status |-> "RUNNING", metrics |-> <<>>, params |-> <<>>,
     artifacts |-> {}, owner |-> <<e, t>>]

RunExists(id) == id \in DOMAIN runs

\* run.info.run_id: run ids are opaque and unique.  The k-th run created by task t
\* of DAG run e is named by a number that no other (e, t, k) has.
IdBase(t) ==
    CASE t = "process_data" -> 0
      [] t = "model_lr" -> 1
      [] t = "model_rf" -> 2

FreshRunId(e, t) ==
    (e - 1) * (2 + GridSize) + IdBase(t)
        + Cardinality({id \in DOMAIN runs : runs[id].owner = <<e, t>>}) + 1

\* start_run: the tracking service stores the new Run under its run id
StartRun(e, t, name) == (FreshRunId(e, t) :> NewRun(e, t, name)) @@ runs

\* ------------------------------------------------------------------- Init
Loaded ==
    /\ fit \in [0..GridSize -> R2Vals]
    /\ dagruns = 0
    /\ ti = [e \in Execs |-> [t \in Tasks |-> "none"]]
    /\ pc = [e \in Execs |-> [t \in Tasks |-> "idle"]]
    /\ data = [e \in Execs |-> [t \in Tasks |-> <<>>]]
    /\ active = [e \in Execs |-> [t \in Tasks |-> 0]]
    /\ acc = [e \in Execs |-> [t \in Tasks |-> <<>>]]
    /\ xcom = {}
    /\ runs = <<>>
    /\ versions = <<>>
    /\ pushed = [x \in Execs \X Tasks \X Keys |-> 0]
    /\ reads = {}
    /\ derefs = {}

Init == schedule = 1 /\ Loaded

InitRuns == schedule = MaxExec /\ Loaded

\* -------------------------------------------------------------- scheduler
\* schedule_interval "0 6 * * *": the scheduler creates the next DAG run
CreateDagRun ==
    /\ dagruns < schedule
    /\ dagruns > 0 => DagRunFinished(dagruns)
    /\ dagruns' = dagruns + 1
    /\ UNCHANGED <<schedule, fit, ti, pc, data, active, acc, xcom, runs, versions, pushed, reads, derefs>>

\* variant: trigger rule all_done
StartTaskAllDone(e, t) ==
    /\ e <= dagruns
    /\ ti[e][t] = "none"
    /\ \A u \in Upstream(t) : ti[e][u] \in Terminal
    /\ ti' = [ti EXCEPT ![e][t] = "running"]
    /\ pc' = [pc EXCEPT ![e][t] = Entry(t)]
    /\ UNCHANGED <<schedule, fit, dagruns, data, active, acc, xcom, runs, versions, pushed, reads, derefs>>

\* default trigger rule all_success: a task starts once every upstream task succeeded
StartTask(e, t) ==
    /\ e <= dagruns
    /\ ti[e][t] = "none"
    /\ \A u \in Upstream(t) : ti[e][u] = "success"
    /\ ti' = [ti EXCEPT ![e][t] = "running"]
    /\ pc' = [pc EXCEPT ![e][t] = Entry(t)]
    /\ UNCHANGED <<schedule, fit, dagruns, data, active, acc, xcom, runs, versions, pushed, reads, derefs>>

\* all_success with a failed (or upstream_failed) upstream task: never run
MarkUpstreamFailed(e, t) ==
    /\ e <= dagruns
    /\ ti[e][t] = "none"
    /\ \E u \in Upstream(t) : ti[e][u] \in {"failed", "upstream_failed"}
    /\ ti' = [ti EXCEPT ![e][t] = "upstream_failed"]
    /\ UNCHANGED <<schedule, fit, dagruns, pc, data, active, acc, xcom, runs, versions, pushed, reads, derefs>>

\* the callable returned or raised: its process ends, its locals are gone
Finish(e, t, st) ==
    /\ ti' = [ti EXCEPT ![e][t] = st]
    /\ pc' = [pc EXCEPT ![e][t] = "idle"]
    /\ data' = [data EXCEPT ![e][t] = <<>>]
    /\ active' = [active EXCEPT ![e][t] = 0]
    /\ acc' = [acc EXCEPT ![e][t] = <<>>]

At(e, t, l) == e <= dagruns /\ ti[e][t] = "running" /\ pc[e][t] = l

\* variant: retries = 1, the failed task instance is queued again
RaiseRetry(e, t) ==
    /\ e <= dagruns
    /\ ti[e][t] = "running"
    /\ runs' = IF active[e][t] # 0 /\ pc[e][t] # "end_run"
                 THEN [runs EXCEPT ![active[e][t]].status = "FAILED"]
                 ELSE runs
    /\ Finish(e, t, "none")
    /\ UNCHANGED <<schedule, fit, dagruns, xcom, versions, pushed, reads, derefs>>

\* an unhandled exception in the statement at pc (I/O, network, data error):
\* the with-block's exit marks the open run FAILED; when it is the exit's own
\* end_run call that fails the run stays RUNNING.  No retries are configured.
Raise(e, t) ==
    /\ e <= dagruns
    /\ ti[e][t] = "running"
    /\ runs' = IF active[e][t] # 0 /\ pc[e][t] # "end_run"
                 THEN [runs EXCEPT ![active[e][t]].status = "FAILED"]
                 ELSE runs
    /\ Finish(e, t, "failed")
    /\ UNCHANGED <<schedule, fit, dagruns, xcom, versions, pushed, reads, derefs>>

\* --------------------------------------------------- process_data (l.26-36)
ProcessStartRun(e) ==
    /\ At(e, "process_data", "start_run")
    /\ runs' = StartRun(e, "process_data", "process")
    /\ active' = [active EXCEPT ![e]["process_data"] = FreshRunId(e, "process_data")]
    /\ pc' = [pc EXCEPT ![e]["process_data"] = "log_artifact"]
    /\ UNCHANGED <<schedule, fit, dagruns, ti, data, acc, xcom, versions, pushed, reads, derefs>>

ProcessLogArtifact(e) ==
    /\ At(e, "process_data", "log_artifact")
    /\ runs' = [runs EXCEPT ![active[e]["process_data"]].artifacts = @ \cup {"processed_data"}]
    /\ pc' = [pc EXCEPT ![e]["process_data"] = "xcom_push"]
    /\ UNCHANGED <<schedule, fit, dagruns, ti, data, active, acc, xcom, versions, pushed, reads, derefs>>

ProcessPush(e) ==
    /\ At(e, "process_data", "xcom_push")
    /\ xcom' = XComSet(xcom, e, "process_data", "run_id", <<active[e]["process_data"]>>)
    /\ pushed' = [pushed EXCEPT ![<<e, "process_data", "run_id">>] = @ + 1]
    /\ pc' = [pc EXCEPT ![e]["process_data"] = "end_run"]
    /\ UNCHANGED <<schedule, fit, dagruns, ti, data, active, acc, runs, versions, reads, derefs>>

ProcessEndRun(e) ==
    /\ At(e, "process_data", "end_run")
    /\ runs' = [runs EXCEPT ![active[e]["process_data"]].status = "FINISHED"]
    /\ Finish(e, "process_data", "success")
    /\ UNCHANGED <<schedule, fit, dagruns, xcom, versions, pushed, reads, derefs>>

\* variant: the execution date is not part of the lookup, the oldest row is returned
XComGetOneAnyDate(tab, e, t, k) ==
    LET rs == {r \in tab : r.task = t /\ r.key = k}
    IN  {r \in rs : \A q \in rs : r.exec <= q.exec}

\* XCom.get_one for a task of DAG run e: the row of the same execution date, if any
XComGetOne(tab, e, t, k) == XComRows(tab, e, t, k)

PullValue(rows) == IF rows = {} THEN <<>> ELSE (CHOOSE r \in rows : TRUE).value

ReadOf(e, t, src, k, rows) ==
    [by |-> <<e, t>>, task |-> src, key |-> k, hit |-> rows # {},
     from |-> IF rows = {} THEN 0 ELSE (CHOOSE r \in rows : TRUE).exec]

DerefOf(e, t, id) ==
    [by |-> <<e, t>>, run |-> id,
     status |-> IF RunExists(id) THEN runs[id].status ELSE "MISSING"]

\* ------------------------------------- make_lr / make_rf, common head
\* data_run_id = kwargs["ti"].xcom_pull(task_ids="process_data", key="run_id")
TrainerPull(e, t) ==
    /\ At(e, t, "xcom_pull")
    /\ LET rows == XComGetOne(xcom, e, "process_data", "run_id") IN
        /\ data' = [data EXCEPT ![e][t] = PullValue(rows)]
        /\ reads' = reads \cup {ReadOf(e, t, "process_data", "run_id", rows)}
    /\ pc' = [pc EXCEPT ![e][t] = "download_artifacts"]
    /\ UNCHANGED <<schedule, fit, dagruns, ti, active, acc, xcom, runs, versions, pushed, derefs>>

\* client.download_artifacts(data_run_id, "processed_data"), then read_csv and split
TrainerDownload(e, t) ==
    /\ At(e, t, "download_artifacts")
    /\ IF /\ data[e][t] # <<>>
          /\ RunExists(data[e][t][1])
          /\ "processed_data" \in runs[data[e][t][1]].artifacts
         THEN /\ derefs' = derefs \cup {DerefOf(e, t, data[e][t][1])}
              /\ pc' = [pc EXCEPT ![e][t] = "start_run"]
              /\ UNCHANGED <<ti, data, active, acc>>
         ELSE /\ Finish(e, t, "failed")
              /\ UNCHANGED derefs
    /\ UNCHANGED <<schedule, fit, dagruns, xcom, runs, versions, pushed, reads>>

\* -------------------------------------------------------- make_lr (l.39-62)
LrStartRun(e) ==
    /\ At(e, "model_lr", "start_run")
    /\ runs' = StartRun(e, "model_lr", "lr")
    /\ active' = [active EXCEPT ![e]["model_lr"] = FreshRunId(e, "model_lr")]
    /\ pc' = [pc EXCEPT ![e]["model_lr"] = "log"]
    /\ UNCHANGED <<schedule, fit, dagruns, ti, data, acc, xcom, versions, pushed, reads, derefs>>

\* variant: the two callables share one process and its active-run stack:
\* log_metric and log_model go to the run started last
LrLogSharedActive(e) ==
    /\ At(e, "model_lr", "log")
    /\ LET target == IF active[e]["model_rf"] # 0 THEN active[e]["model_rf"]
                     ELSE active[e]["model_lr"]
       IN  runs' = [runs EXCEPT ![target].metrics = [m \in {"r2"} |-> fit[0]],
                                ![target].artifacts = @ \cup {"model"}]
    /\ pc' = [pc EXCEPT ![e]["model_lr"] = "xcom_push"]
    /\ UNCHANGED <<schedule, fit, dagruns, ti, data, active, acc, xcom, versions, pushed, reads, derefs>>

\* variant: log_model(model, "model", registered_model_name="BestModel")
LrLogRegistering(e) ==
    /\ At(e, "model_lr", "log")
    /\ runs' = [runs EXCEPT ![active[e]["model_lr"]].metrics = [m \in {"r2"} |-> fit[0]],
                            ![active[e]["model_lr"]].artifacts = @ \cup {"model"}]
    /\ versions' = Append(versions, [name |-> "BestModel", run |-> active[e]["model_lr"],
                                     path |-> "model", stage |-> "None", owner |-> e])
    /\ pc' = [pc EXCEPT ![e]["model_lr"] = "xcom_push"]
    /\ UNCHANGED <<schedule, fit, dagruns, ti, data, active, acc, xcom, pushed, reads, derefs>>

\* fit, predict, eval_metrics, log_metric x3, log_model: r2 is what the fit gave
LrLog(e) ==
    /\ At(e, "model_lr", "log")
    /\ LET r2 == fit[0] IN
        runs' = [runs EXCEPT ![active[e]["model_lr"]].metrics = [m \in {"r2"} |-> r2],
                             ![active[e]["model_lr"]].artifacts = @ \cup {"model"}]
    /\ pc' = [pc EXCEPT ![e]["model_lr"] = "xcom_push"]
    /\ UNCHANGED <<schedule, fit, dagruns, ti, data, active, acc, xcom, versions, pushed, reads, derefs>>

LrPush(e) ==
    /\ At(e, "model_lr", "xcom_push")
    /\ xcom' = XComSet(xcom, e, "model_lr", "run_id", <<active[e]["model_lr"]>>)
    /\ pushed' = [pushed EXCEPT ![<<e, "model_lr", "run_id">>] = @ + 1]
    /\ pc' = [pc EXCEPT ![e]["model_lr"] = "end_run"]
    /\ UNCHANGED <<schedule, fit, dagruns, ti, data, active, acc, runs, versions, reads, derefs>>

LrEndRun(e) ==
    /\ At(e, "model_lr", "end_run")
    /\ runs' = [runs EXCEPT ![active[e]["model_lr"]].status = "FINISHED"]
    /\ Finish(e, "model_lr", "success")
    /\ UNCHANGED <<schedule, fit, dagruns, xcom, versions, pushed, reads, derefs>>

\* -------------------------------------------------------- make_rf (l.65-95)
\* with mlflow.start_run(run_name="rf") for the next pair of the grid
RfStartRun(e) ==
    /\ At(e, "model_rf", "start_run")
    /\ runs' = StartRun(e, "model_rf", "rf")
    /\ active' = [active EXCEPT ![e]["model_rf"] = FreshRunId(e, "model_rf")]
    /\ pc' = [pc EXCEPT ![e]["model_rf"] = "log"]
    /\ UNCHANGED <<schedule, fit, dagruns, ti, data, acc, xcom, versions, pushed, reads, derefs>>

\* fit, predict, eval_metrics, log_param x2, log_metric x3, log_model
RfLog(e) ==
    /\ At(e, "model_rf", "log")
    /\ LET r2 == fit[Len(acc[e]["model_rf"]) + 1] IN
        runs' = [runs EXCEPT ![active[e]["model_rf"]].params = Grid(Len(acc[e]["model_rf"]) + 1),
                             ![active[e]["model_rf"]].metrics = [m \in {"r2"} |-> r2],
                             ![active[e]["model_rf"]].artifacts = @ \cup {"model"}]
    /\ pc' = [pc EXCEPT ![e]["model_rf"] = "end_run"]
    /\ UNCHANGED <<schedule, fit, dagruns, ti, data, active, acc, xcom, versions, pushed, reads, derefs>>

\* variant: the list is pushed inside the loops, after every append
RfEndRunPushing(e) ==
    /\ At(e, "model_rf", "end_run")
    /\ runs' = [runs EXCEPT ![active[e]["model_rf"]].status = "FINISHED"]
    /\ acc' = [acc EXCEPT ![e]["model_rf"] = Append(@, active[e]["model_rf"])]
    /\ xcom' = XComSet(xcom, e, "model_rf", "run_id",
                       Append(acc[e]["model_rf"], active[e]["model_rf"]))
    /\ active' = [active EXCEPT ![e]["model_rf"] = 0]
    /\ pc' = [pc EXCEPT ![e]["model_rf"] =
                IF Len(acc[e]["model_rf"]) + 1 < GridSize THEN "start_run" ELSE "xcom_push"]
    /\ UNCHANGED <<schedule, fit, dagruns, ti, data, versions, pushed, reads, derefs>>

\* runs.append(run.info.run_id), the with-block closes, next pair or leave the loops
RfEndRun(e) ==
    /\ At(e, "model_rf", "end_run")
    /\ runs' = [runs EXCEPT ![active[e]["model_rf"]].status = "FINISHED"]
    /\ acc' = [acc EXCEPT ![e]["model_rf"] = Append(@, active[e]["model_rf"])]
    /\ active' = [active EXCEPT ![e]["model_rf"] = 0]
    /\ pc' = [pc EXCEPT ![e]["model_rf"] =
                IF Len(acc[e]["model_rf"]) + 1 < GridSize THEN "start_run" ELSE "xcom_push"]
    /\ UNCHANGED <<schedule, fit, dagruns, ti, data, xcom, versions, pushed, reads, derefs>>

RfPush(e) ==
    /\ At(e, "model_rf", "xcom_push")
    /\ xcom' = XComSet(xcom, e, "model_rf", "run_id", acc[e]["model_rf"])
    /\ pushed' = [pushed EXCEPT ![<<e, "model_rf", "run_id">>] = @ + 1]
    /\ Finish(e, "model_rf", "success")
    /\ UNCHANGED <<schedule, fit, dagruns, runs, versions, reads, derefs>>

\* ------------------------------------------------- get_best_model (l.98-105)
\* variant: the first index, whatever the values
ArgFirst(s) == CHOOSE i \in DOMAIN s : \A j \in DOMAIN s : i <= j

\* variant: index of the last occurrence of the maximum
ArgMaxLast(s) ==
    CHOOSE i \in DOMAIN s :
        /\ \A j \in DOMAIN s : s[j] <= s[i]
        /\ \A j \in DOMAIN s : j > i => s[j] < s[i]

\* variant: index of the first occurrence of the minimum
ArgMin(s) ==
    CHOOSE i \in DOMAIN s :
        /\ \A j \in DOMAIN s : s[j] >= s[i]
        /\ \A j \in DOMAIN s : j < i => s[j] > s[i]

\* np.argmax: index of the first occurrence of the maximum (1-based here)
ArgMax(s) ==
    CHOOSE i \in DOMAIN s :
        /\ \A j \in DOMAIN s : s[j] <= s[i]
        /\ \A j \in DOMAIN s : j < i => s[j] < s[i]

\* ids = [r for ids in xcom_pull(task_ids=["model_lr", "model_rf"], key="run_id") for r in ids]
\* a task without a row yields None, and iterating None raises TypeError
SelPull(e) ==
    /\ At(e, "get_best_model", "xcom_pull")
    /\ LET lr == XComGetOne(xcom, e, "model_lr", "run_id")
           rf == XComGetOne(xcom, e, "model_rf", "run_id")
       IN  /\ reads' = reads \cup {ReadOf(e, "get_best_model", "model_lr", "run_id", lr),
                                   ReadOf(e, "get_best_model", "model_rf", "run_id", rf)}
           /\ IF lr # {} /\ rf # {}
                THEN /\ data' = [data EXCEPT ![e]["get_best_model"] =
                                    Flatten(<<PullValue(lr), PullValue(rf)>>)]
                     /\ pc' = [pc EXCEPT ![e]["get_best_model"] = "get_run"]
                     /\ UNCHANGED <<ti, active, acc>>
                ELSE Finish(e, "get_best_model", "failed")
    /\ UNCHANGED <<schedule, fit, dagruns, xcom, runs, versions, pushed, derefs>>

\* the run ids get_best_model can resolve: client.get_run raises on a missing run,
\* run.data.metrics["r2"] raises KeyError on a run without the metric
Resolvable(ids) ==
    \A i \in DOMAIN ids : RunExists(ids[i]) /\ "r2" \in DOMAIN runs[ids[i]].metrics

\* best_run = runs[np.argmax(run_r2)]; np.argmax raises ValueError on an empty list
BestRun(ids) ==
    LET run_r2 == [i \in DOMAIN ids |-> runs[ids[i]].metrics["r2"]]
    IN  ids[ArgMax(run_r2)]

\* variant: the ids that do not resolve are left out of the selection
Resolves(id) == RunExists(id) /\ "r2" \in DOMAIN runs[id].metrics

SelGetRunsSkipMissing(e) ==
    /\ At(e, "get_best_model", "get_run")
    /\ LET ids == SelectSeq(data[e]["get_best_model"], Resolves) IN
        IF ids # <<>>
          THEN /\ acc' = [acc EXCEPT ![e]["get_best_model"] = <<BestRun(ids)>>]
               /\ derefs' = derefs \cup {DerefOf(e, "get_best_model", ids[i]) : i \in DOMAIN ids}
               /\ pc' = [pc EXCEPT ![e]["get_best_model"] = "xcom_push"]
               /\ UNCHANGED <<ti, data, active>>
          ELSE /\ Finish(e, "get_best_model", "failed")
               /\ UNCHANGED derefs
    /\ UNCHANGED <<schedule, fit, dagruns, xcom, runs, versions, pushed, reads>>

\* l.102-104: get_run for every id, the r2 list, argmax
SelGetRuns(e) ==
    /\ At(e, "get_best_model", "get_run")
    /\ LET ids == data[e]["get_best_model"] IN
        IF Resolvable(ids) /\ ids # <<>>
          THEN /\ acc' = [acc EXCEPT ![e]["get_best_model"] = <<BestRun(ids)>>]
               /\ derefs' = derefs \cup {DerefOf(e, "get_best_model", ids[i]) : i \in DOMAIN ids}
               /\ pc' = [pc EXCEPT ![e]["get_best_model"] = "xcom_push"]
               /\ UNCHANGED <<ti, data, active>>
          ELSE /\ Finish(e, "get_best_model", "failed")
               /\ UNCHANGED derefs
    /\ UNCHANGED <<schedule, fit, dagruns, xcom, runs, versions, pushed, reads>>

SelPush(e) ==
    /\ At(e, "get_best_model", "xcom_push")
    /\ xcom' = XComSet(xcom, e, "get_best_model", "best_model_run_id", acc[e]["get_best_model"])
    /\ pushed' = [pushed EXCEPT ![<<e, "get_best_model", "best_model_run_id">>] = @ + 1]
    /\ Finish(e, "get_best_model", "success")
    /\ UNCHANGED <<schedule, fit, dagruns, runs, versions, reads, derefs>>

\* -------------------------------------------- register_best_model (l.108-116)
RegPull(e) ==
    /\ At(e, "register_best_model", "xcom_pull")
    /\ LET rows == XComGetOne(xcom, e, "get_best_model", "best_model_run_id") IN
        /\ data' = [data EXCEPT ![e]["register_best_model"] = PullValue(rows)]
        /\ reads' = reads \cup
                {ReadOf(e, "register_best_model", "get_best_model", "best_model_run_id", rows)}
    /\ pc' = [pc EXCEPT ![e]["register_best_model"] = "register_model"]
    /\ UNCHANGED <<schedule, fit, dagruns, ti, active, acc, xcom, runs, versions, pushed, derefs>>

\* mlflow.register_model(f"runs:/{run_id}/model", "BestModel"): the registry
\* resolves the run and appends a version in stage None
RegisteredVersion(e, id) ==
    [name |-> "BestModel", run |-> id, path |-> "model", stage |-> "None", owner |-> e]

RegRegister(e) ==
    /\ At(e, "register_best_model", "register_model")
    /\ LET d == data[e]["register_best_model"] IN
        IF d # <<>> /\ RunExists(d[1])
          THEN /\ versions' = Append(versions, RegisteredVersion(e, d[1]))
               /\ acc' = [acc EXCEPT ![e]["register_best_model"] = <<Len(versions) + 1>>]
               /\ derefs' = derefs \cup {DerefOf(e, "register_best_model", d[1])}
               /\ pc' = [pc EXCEPT ![e]["register_best_model"] = "transition"]
               /\ UNCHANGED <<ti, data, active>>
          ELSE /\ Finish(e, "register_best_model", "failed")
               /\ UNCHANGED <<versions, derefs>>
    /\ UNCHANGED <<schedule, fit, dagruns, xcom, runs, pushed, reads>>

\* variant: the version is moved to Staging
TransitionStageStaging(vs, v, stage) == [vs EXCEPT ![v].stage = "Staging"]

\* variant: the call asks for the versions already in the stage to be archived
TransitionStageArchiving(vs, v, stage) ==
    [w \in DOMAIN vs |->
        IF w = v THEN [vs[w] EXCEPT !.stage = stage]
        ELSE IF vs[w].stage = stage THEN [vs[w] EXCEPT !.stage = "Archived"]
        ELSE vs[w]]

\* client.transition_model_version_stage(name, version, stage): the call names one
\* version and does not ask for the versions already in the stage to be archived
TransitionStage(vs, v, stage) == [vs EXCEPT ![v].stage = stage]

RegTransition(e) ==
    /\ At(e, "register_best_model", "transition")
    /\ versions' = TransitionStage(versions, acc[e]["register_best_model"][1], "Production")
    /\ Finish(e, "register_best_model", "success")
    /\ UNCHANGED <<schedule, fit, dagruns, xcom, runs, pushed, reads, derefs>>

\* ------------------------------------------------------ next-state relations
Step(e) ==
    \/ ProcessStartRun(e)
    \/ ProcessLogArtifact(e)
    \/ ProcessPush(e)
    \/ ProcessEndRun(e)
    \/ \E t \in Trainers : TrainerPull(e, t)
    \/ \E t \in Trainers : TrainerDownload(e, t)
    \/ LrStartRun(e)
    \/ LrLog(e)
    \/ LrPush(e)
    \/ LrEndRun(e)
    \/ RfStartRun(e)
    \/ RfLog(e)
    \/ RfEndRun(e)
    \/ RfPush(e)
    \/ SelPull(e)
    \/ SelGetRuns(e)
    \/ SelPush(e)
    \/ RegPull(e)
    \/ RegRegister(e)
    \/ RegTransition(e)

Next ==
    \/ CreateDagRun
    \/ \E e \in Execs, t \in Tasks : StartTask(e, t)
    \/ \E e \in Execs, t \in Tasks : MarkUpstreamFailed(e, t)
    \/ \E e \in Execs, t \in Tasks : Raise(e, t)
    \/ \E e \in Execs : Step(e)

Spec == Init /\ [][Next]_vars

\* a sequence of DAG runs in which no statement raises
NextRuns ==
    \/ CreateDagRun
    \/ \E e \in Execs, t \in Tasks : StartTask(e, t)
    \/ \E e \in Execs : Step(e)

SpecRuns == InitRuns /\ [][NextRuns]_vars

\* the same DAG runs under a scheduler and workers that keep running: a step that
\* stays possible is eventually taken
SpecLive == InitRuns /\ [][NextRuns]_vars /\ WF_vars(NextRuns)

\* get_best_model and register_best_model on drawn inputs: both trainers are
\* over, the lists under (model_lr, run_id) and (model_rf, run_id) and the runs
\* the tracking service holds are arbitrary
SeqsUpTo(S, n) == UNION {[1..k -> S] : k \in 0..n}

StoredRun(r2) ==
    [name |-> "rf", status |-> "FINISHED", metrics |-> [m \in {"r2"} |-> r2],
     params |-> <<>>, artifacts |-> {"model"}, owner |-> <<1, "model_rf">>]

InitSel ==
    /\ schedule = 1
    /\ dagruns = 1
    /\ fit = [i \in 0..GridSize |-> 0]
    /\ ti = [e \in Execs |-> [t \in Tasks |->
                IF e = 1 /\ t \in {"process_data", "model_lr", "model_rf"}
                  THEN "success" ELSE "none"]]
    /\ pc = [e \in Execs |-> [t \in Tasks |-> "idle"]]
    /\ data = [e \in Execs |-> [t \in Tasks |-> <<>>]]
    /\ active = [e \in Execs |-> [t \in Tasks |-> 0]]
    /\ acc = [e \in Execs |-> [t \in Tasks |-> <<>>]]
    /\ \E m \in [1..MaxStored -> R2Vals] : runs = [id \in 1..MaxStored |-> StoredRun(m[id])]
    /\ \E lr \in SeqsUpTo(1..(MaxStored + 1), 1), rf \in SeqsUpTo(1..(MaxStored + 1), MaxList) :
        xcom = {[exec |-> 1, task |-> "model_lr", key |-> "run_id", value |-> lr],
                [exec |-> 1, task |-> "model_rf", key |-> "run_id", value |-> rf]}
    /\ versions = <<>>
    /\ pushed = [x \in Execs \X Tasks \X Keys |->
                    IF x[1] = 1 /\ x[2] \in Trainers /\ x[3] = "run_id" THEN 1 ELSE 0]
    /\ reads = {}
    /\ derefs = {}

NextSel ==
    \/ \E t \in {"get_best_model", "register_best_model"} : StartTask(1, t)
    \/ MarkUpstreamFailed(1, "register_best_model")
    \/ SelPull(1)
    \/ SelGetRuns(1)
    \/ SelPush(1)
    \/ RegPull(1)
    \/ RegRegister(1)
    \/ RegTransition(1)

SpecSel == InitSel /\ [][NextSel]_vars
\* =================================================================== claims
Started(e, t) == ti[e][t] \in {"running", "success", "failed"}
Succeeded(e, t) == ti[e][t] = "success"
NotRun(e, t) == ti[e][t] \in {"none", "upstream_failed"}

HasRow(e, t, k) == \E r \in xcom : r.exec = e /\ r.task = t /\ r.key = k
RowValue(e, t, k) == (CHOOSE r \in xcom : r.exec = e /\ r.task = t /\ r.key = k).value

\* the candidate list of DAG run e: the model_lr list followed by the model_rf list
Candidates(e) == RowValue(e, "model_lr", "run_id") \o RowValue(e, "model_rf", "run_id")

R2(id) == runs[id].metrics["r2"]

\* C1: in every DAG run a trainer has started only if process_data has succeeded,
\* get_best_model has started only if model_lr and model_rf have both succeeded,
\* register_best_model has started only if get_best_model has succeeded.
C1_Precedence ==
    \A e \in Execs :
        /\ Started(e, "model_lr") => Succeeded(e, "process_data")
        /\ Started(e, "model_rf") => Succeeded(e, "process_data")
        /\ Started(e, "get_best_model") =>
                Succeeded(e, "model_lr") /\ Succeeded(e, "model_rf")
        /\ Started(e, "register_best_model") => Succeeded(e, "get_best_model")

\* the two trainers are not ordered: both callables are running at once
C1_Witness ==
    \E e \in Execs : /\ ti[e]["model_lr"] = "running" /\ pc[e]["model_lr"] = "log"
                     /\ ti[e]["model_rf"] = "running" /\ pc[e]["model_rf"] = "log"

\* either trainer can be over before the other has started
C1_LrFirst == \E e \in Execs : Succeeded(e, "model_lr") /\ ti[e]["model_rf"] = "none"
C1_RfFirst == \E e \in Execs : Succeeded(e, "model_rf") /\ ti[e]["model_lr"] = "none"

C3_BestIsMax ==
    \A e \in Execs :
        HasRow(e, "get_best_model", "best_model_run_id") =>
            LET best == RowValue(e, "get_best_model", "best_model_run_id")[1]
                cand == Candidates(e)
            IN  /\ \E i \in DOMAIN cand : cand[i] = best
                /\ \A i \in DOMAIN cand : R2(best) >= R2(cand[i])

\* a forest run was published as best, ahead of a linear run with a smaller r2
C3_Witness ==
    \E e \in Execs :
        /\ HasRow(e, "get_best_model", "best_model_run_id")
        /\ LET best == RowValue(e, "get_best_model", "best_model_run_id")[1]
               cand == Candidates(e)
           IN  /\ best # cand[1]
               /\ R2(cand[1]) < R2(best)
               /\ \E i \in DOMAIN cand : i > 1 /\ R2(cand[i]) < R2(best)

\* the task graph's edges, transitively: <<u, d>> when d is downstream of u
Downstream ==
    {<<"process_data", "model_lr">>, <<"process_data", "model_rf">>,
     <<"process_data", "get_best_model">>, <<"process_data", "register_best_model">>,
     <<"model_lr", "get_best_model">>, <<"model_lr", "register_best_model">>,
     <<"model_rf", "get_best_model">>, <<"model_rf", "register_best_model">>,
     <<"get_best_model", "register_best_model">>}

\* C4: when a step has failed (or was not run because of a failure), no step
\* downstream of it is running or has succeeded; in particular after a failed
\* process_data none of the four other steps succeeds.
C4_FailureHaltsDownstream ==
    \A e \in Execs : \A p \in Downstream :
        ti[e][p[1]] \in {"failed", "upstream_failed"} =>
            ti[e][p[2]] \notin {"running", "success"}

\* process_data failed and the DAG run is over: the four others were not run
C4_Witness ==
    \E e \in Execs :
        /\ ti[e]["process_data"] = "failed"
        /\ \A t \in Tasks \ {"process_data"} : ti[e][t] = "upstream_failed"

\* C5: the list model_rf publishes holds exactly 4 run ids, the ids of the 4
\* Runs make_rf created in that DAG run, with params (4,4), (4,10), (25,4),
\* (25,10) in this order.
C5_FourForestRuns ==
    \A e \in Execs :
        HasRow(e, "model_rf", "run_id") =>
            LET v == RowValue(e, "model_rf", "run_id")
                expected == << <<4, 4>>, <<4, 10>>, <<25, 4>>, <<25, 10>> >>
            IN  /\ Len(v) = 4
                /\ \A i \in DOMAIN v : /\ RunExists(v[i])
                                       /\ runs[v[i]].name = "rf"
                                       /\ runs[v[i]].params = expected[i]
                                       /\ runs[v[i]].status = "FINISHED"
                /\ \A i, j \in DOMAIN v : i # j => v[i] # v[j]
                /\ {id \in DOMAIN runs : runs[id].owner = <<e, "model_rf">>} = Range(v)

\* model_rf has published its four runs while model_lr's run is still open
C5_Witness ==
    \E e \in Execs :
        /\ HasRow(e, "model_rf", "run_id")
        /\ Len(RowValue(e, "model_rf", "run_id")) = 4
        /\ active[e]["model_lr"] # 0
VersionsOf(e) == {v \in DOMAIN versions : versions[v].owner = e}

\* C6: when register_best_model has completed in a DAG run, that run registered
\* exactly one BestModel version, it points at the model artifact of the run id
\* get_best_model published in the same DAG run, and its stage is Production; a
\* version in stage None exists only while its promoter is at the transition call
\* (or raised there).
C6_PromotesPublishedBest ==
    \A e \in Execs :
        /\ Succeeded(e, "register_best_model") =>
            /\ Cardinality(VersionsOf(e)) = 1
            /\ \A v \in VersionsOf(e) :
                /\ versions[v].name = "BestModel"
                /\ versions[v].run = RowValue(e, "get_best_model", "best_model_run_id")[1]
                /\ versions[v].path = "model"
                /\ "model" \in runs[versions[v].run].artifacts
                /\ runs[versions[v].run].owner[1] = e
                /\ versions[v].stage = "Production"
        /\ \A v \in VersionsOf(e) :
            versions[v].stage = "None" =>
                \/ At(e, "register_best_model", "transition")
                \/ ti[e]["register_best_model"] = "failed"

\* the second DAG run has promoted its own best run
C6_Witness ==
    /\ dagruns = 2
    /\ Succeeded(2, "register_best_model")
    /\ \E v \in VersionsOf(2) : versions[v].stage = "Production" /\ v = 2

\* C7 as stated: a BestModel version in stage Production has no earlier version
\* in stage Production.
C7_SingleProduction ==
    \A v, w \in DOMAIN versions :
        (w < v /\ versions[v].stage = "Production") => versions[w].stage # "Production"

\* C7, amended: the version registered by a completed register_best_model is in
\* stage Production, the most recent one and every earlier one alike: a later
\* promotion leaves the stage of the earlier versions as it is.
C7_PromotedStaysProduction ==
    \A e \in Execs :
        Succeeded(e, "register_best_model") =>
            /\ VersionsOf(e) # {}
            /\ \A v \in VersionsOf(e) : versions[v].stage = "Production"

\* two DAG runs have promoted: versions 1 and 2 are both in Production
C7_Witness ==
    /\ Succeeded(1, "register_best_model")
    /\ Succeeded(2, "register_best_model")
    /\ Len(versions) = 2
    /\ versions[1].stage = "Production"
    /\ versions[2].stage = "Production"

\* C8: every message <<DAG run, task, key>> is pushed at most once, every
\* xcom_pull finds its row (the row was written before), and the row it returns
\* was written in the DAG run of the task that pulls.
C8_XComLifecycle ==
    /\ \A x \in DOMAIN pushed : pushed[x] <= 1
    /\ \A x \in DOMAIN pushed : pushed[x] = 1 <=> HasRow(x[1], x[2], x[3])
    /\ \A r \in reads : r.hit /\ r.from = r.by[1]

\* the tasks of the second DAG run have pulled, with the rows of the first still there
C8_Witness ==
    /\ \E r \in reads : r.by = <<2, "register_best_model">>
    /\ \E r \in reads : r.by = <<2, "model_rf">>
    /\ HasRow(1, "process_data", "run_id")
    /\ HasRow(1, "get_best_model", "best_model_run_id")

\* C9: when one trainer failed, get_best_model is not run (it ends
\* upstream_failed), no best_model_run_id is published, register_best_model is
\* not run and no model version is registered in that DAG run.
C9_NoReducedSelection ==
    \A e \in Execs :
        (ti[e]["model_lr"] = "failed" \/ ti[e]["model_rf"] = "failed") =>
            /\ NotRun(e, "get_best_model")
            /\ NotRun(e, "register_best_model")
            /\ ~HasRow(e, "get_best_model", "best_model_run_id")
            /\ VersionsOf(e) = {}
            /\ DagRunFinished(e) => /\ ti[e]["get_best_model"] = "upstream_failed"
                                    /\ ti[e]["register_best_model"] = "upstream_failed"

\* model_lr succeeded and published, model_rf failed after its third run
C9_Witness ==
    \E e \in Execs :
        /\ Succeeded(e, "model_lr")
        /\ HasRow(e, "model_lr", "run_id")
        /\ ti[e]["model_rf"] = "failed"
        /\ Cardinality({id \in DOMAIN runs : runs[id].owner = <<e, "model_rf">>}) = 3
        /\ DagRunFinished(e)
\* C10: when the candidate list get_best_model reads is empty or holds a run id
\* the tracking service does not know, get_best_model does not succeed (it
\* aborts), best_model_run_id is not published, register_best_model is not run
\* and no model version is registered.
C10_AbortOnMissingOrEmpty ==
    \A e \in Execs :
        (HasRow(e, "model_lr", "run_id") /\ HasRow(e, "model_rf", "run_id")) =>
            LET cand == Candidates(e) IN
            (cand = <<>> \/ \E i \in DOMAIN cand : ~RunExists(cand[i])) =>
                /\ ti[e]["get_best_model"] \in {"none", "running", "failed"}
                /\ pc[e]["get_best_model"] # "xcom_push"
                /\ ~HasRow(e, "get_best_model", "best_model_run_id")
                /\ NotRun(e, "register_best_model")
                /\ VersionsOf(e) = {}

\* a list with a stored and a missing run id: get_best_model aborted at get_run
C10_Witness ==
    /\ HasRow(1, "model_lr", "run_id") /\ HasRow(1, "model_rf", "run_id")
    /\ \E i, j \in DOMAIN Candidates(1) :
            RunExists(Candidates(1)[i]) /\ ~RunExists(Candidates(1)[j])
    /\ ti[1]["get_best_model"] = "failed"
    /\ \E r \in reads : r.by = <<1, "get_best_model">>
    /\ ti[1]["register_best_model"] = "upstream_failed"

\* the empty list: get_best_model aborted as well
C10_EmptyAborted ==
    /\ HasRow(1, "model_lr", "run_id") /\ HasRow(1, "model_rf", "run_id")
    /\ Candidates(1) = <<>>
    /\ ti[1]["get_best_model"] = "failed"
    /\ ti[1]["register_best_model"] = "upstream_failed"
\* C11: a task instance only moves forward: from none to running or
\* upstream_failed, from running to success or failed, and never out of success,
\* failed or upstream_failed; so each callable is run at most once per DAG run and
\* a failed step is not retried.
C11_ForwardOnly ==
    [][\A e \in Execs : \A t \in Tasks :
            /\ ti[e][t] = "none" => ti'[e][t] \in {"none", "running", "upstream_failed"}
            /\ ti[e][t] = "running" => ti'[e][t] \in {"running", "success", "failed"}
            /\ ti[e][t] \in Terminal => ti'[e][t] = ti[e][t]]_vars

\* model_lr raised, model_rf succeeded, and the DAG run is over
C11_Witness ==
    \E e \in Execs :
        /\ ti[e]["model_lr"] = "failed"
        /\ Succeeded(e, "process_data")
        /\ Succeeded(e, "model_rf")
        /\ DagRunFinished(e)
\* the list get_best_model holds once its xcom_pull has returned
Pulled(e) ==
    ti[e]["get_best_model"] = "running" /\ pc[e]["get_best_model"] \in {"get_run", "xcom_push"}

\* C12: the flattened list of get_best_model has 5 pairwise distinct run ids: the
\* one run id model_lr published, then the 4 run ids model_rf published, in their
\* published order; the run of process_data is not among them.
C12_FiveCandidates ==
    \A e \in Execs :
        Pulled(e) =>
            LET ids == data[e]["get_best_model"]
                lr == RowValue(e, "model_lr", "run_id")
                rf == RowValue(e, "model_rf", "run_id")
            IN  /\ Len(ids) = 5
                /\ \A i, j \in DOMAIN ids : i # j => ids[i] # ids[j]
                /\ Len(lr) = 1 /\ ids[1] = lr[1] /\ runs[ids[1]].name = "lr"
                /\ Len(rf) = 4
                /\ \A i \in 1..4 : ids[i + 1] = rf[i] /\ runs[ids[i + 1]].name = "rf"
                /\ \A i \in DOMAIN ids :
                        /\ runs[ids[i]].name # "process"
                        /\ ids[i] # RowValue(e, "process_data", "run_id")[1]

\* get_best_model has pulled and is about to look the runs up
C12_Witness ==
    \E e \in Execs : Pulled(e) /\ pc[e]["get_best_model"] = "get_run"
                        /\ Len(data[e]["get_best_model"]) = 5
\* C13: the published run is the first run of the candidate list that has the
\* maximum r2: every candidate before it has a smaller r2.
C13_FirstOfTies ==
    \A e \in Execs :
        HasRow(e, "get_best_model", "best_model_run_id") =>
            LET best == RowValue(e, "get_best_model", "best_model_run_id")[1]
                cand == Candidates(e)
            IN  \E k \in DOMAIN cand :
                    /\ cand[k] = best
                    /\ \A j \in DOMAIN cand : j < k => R2(cand[j]) < R2(best)

\* two forests share the maximum, above the linear run: the earlier one in grid
\* order was published
C13_Witness ==
    \E e \in Execs :
        /\ HasRow(e, "get_best_model", "best_model_run_id")
        /\ LET best == RowValue(e, "get_best_model", "best_model_run_id")[1]
               cand == Candidates(e)
           IN  \E k, j \in DOMAIN cand :
                    /\ 1 < k /\ k < j
                    /\ cand[k] = best
                    /\ R2(cand[j]) = R2(best)
                    /\ R2(cand[1]) < R2(best)

\* the linear run and a forest share the maximum: the linear run was published
C13_LinearWinsTie ==
    \E e \in Execs :
        /\ HasRow(e, "get_best_model", "best_model_run_id")
        /\ LET best == RowValue(e, "get_best_model", "best_model_run_id")[1]
               cand == Candidates(e)
           IN  cand[1] = best /\ \E j \in DOMAIN cand : j > 1 /\ R2(cand[j]) = R2(best)
\* the list s reordered by the permutation p of its indices
Permute(s, p) == [i \in DOMAIN s |-> s[p[i]]]

\* C14 as stated: for every permutation of the candidate list, the selection of
\* l.102-104 yields the published best_model_run_id.
C14_OrderIndependent ==
    \A e \in Execs :
        HasRow(e, "get_best_model", "best_model_run_id") =>
            LET best == RowValue(e, "get_best_model", "best_model_run_id")[1]
                cand == Candidates(e)
            IN  \A p \in Permutations(DOMAIN cand) : BestRun(Permute(cand, p)) = best

\* C14, amended: for every permutation of the candidate list the selection yields
\* a run with the r2 of the published run, and the published run itself when no
\* other candidate has that r2.
C14_OrderIndependentUpToTies ==
    \A e \in Execs :
        HasRow(e, "get_best_model", "best_model_run_id") =>
            LET best == RowValue(e, "get_best_model", "best_model_run_id")[1]
                cand == Candidates(e)
            IN  \A p \in Permutations(DOMAIN cand) :
                    /\ R2(BestRun(Permute(cand, p))) = R2(best)
                    /\ (\A i \in DOMAIN cand : cand[i] # best => R2(cand[i]) # R2(best))
                            => BestRun(Permute(cand, p)) = best

\* one forest alone has the maximum r2 and was published; it is not the head of the list
C14_Witness ==
    \E e \in Execs :
        /\ HasRow(e, "get_best_model", "best_model_run_id")
        /\ LET best == RowValue(e, "get_best_model", "best_model_run_id")[1]
               cand == Candidates(e)
           IN  /\ cand[1] # best
               /\ \A i \in DOMAIN cand : cand[i] # best => R2(cand[i]) < R2(best)
\* the r2 the fit of the i-th candidate kind gave: 1 the linear model, 2..5 the forests
FitOf(i) == fit[i - 1]

\* C15: whatever the interleaving of model_lr and model_rf, the list
\* get_best_model has pulled is the linear run followed by the forests of (4,4),
\* (4,10), (25,4), (25,10), each run carries the r2 its fit gave, and the
\* published run is the first candidate whose fit gave the maximum: list, metrics
\* and best_model_run_id are determined by the fits alone.
C15_InterleavingIndependent ==
    \A e \in Execs :
        /\ Pulled(e) =>
            LET ids == data[e]["get_best_model"]
                expected == << <<>>, <<4, 4>>, <<4, 10>>, <<25, 4>>, <<25, 10>> >>
            IN  /\ Len(ids) = 5
                /\ runs[ids[1]].name = "lr"
                /\ \A i \in DOMAIN ids :
                        /\ runs[ids[i]].owner[1] = e
                        /\ runs[ids[i]].params = expected[i]
                        /\ runs[ids[i]].status = "FINISHED"
                        /\ "r2" \in DOMAIN runs[ids[i]].metrics
                        /\ runs[ids[i]].metrics["r2"] = FitOf(i)
        /\ HasRow(e, "get_best_model", "best_model_run_id") =>
            LET best == RowValue(e, "get_best_model", "best_model_run_id")[1]
                cand == Candidates(e)
            IN  \E k \in 1..5 :
                    /\ cand[k] = best
                    /\ \A j \in 1..5 : FitOf(j) <= FitOf(k)
                    /\ \A j \in 1..5 : j < k => FitOf(j) < FitOf(k)

\* get_best_model is about to publish the forest of (25,4), whose fit alone gave
\* the maximum
C15_Witness ==
    \E e \in Execs :
        /\ Pulled(e)
        /\ pc[e]["get_best_model"] = "xcom_push"
        /\ acc[e]["get_best_model"] = <<data[e]["get_best_model"][4]>>
        /\ \A j \in 1..5 : j # 4 => FitOf(j) < FitOf(4)
\* a trainer that has its data_run_id (its xcom_pull has returned)
HasDataRunId(e, t) ==
    ti[e][t] = "running" /\ pc[e][t] \in {"download_artifacts", "start_run", "log",
                                          "xcom_push", "end_run"}

\* C16: the data_run_id a trainer pulled is the id of the run process_data created
\* in that DAG run, whether or not the other trainer has pushed its run_id; and
\* once process_data has succeeded its run_id message stays in XCom with that
\* value, next to the run_id messages of the trainers.
C16_KeyedByTaskAndKey ==
    \A e \in Execs :
        /\ \A t \in Trainers :
            HasDataRunId(e, t) =>
                /\ Len(data[e][t]) = 1
                /\ RunExists(data[e][t][1])
                /\ runs[data[e][t][1]].name = "process"
                /\ runs[data[e][t][1]].owner = <<e, "process_data">>
        /\ Succeeded(e, "process_data") =>
                /\ HasRow(e, "process_data", "run_id")
                /\ runs[RowValue(e, "process_data", "run_id")[1]].name = "process"
        /\ \A t \in Trainers :
            Succeeded(e, t) =>
                /\ HasRow(e, t, "run_id")
                /\ \A i \in DOMAIN RowValue(e, t, "run_id") :
                        runs[RowValue(e, t, "run_id")[i]].owner = <<e, t>>

\* model_lr has pushed its run_id and is over; model_rf is about to pull
C16_PullAfterOtherPush ==
    \E e \in Execs :
        /\ Succeeded(e, "model_lr") /\ HasRow(e, "model_lr", "run_id")
        /\ ti[e]["model_rf"] = "running" /\ pc[e]["model_rf"] = "xcom_pull"

\* model_rf holds the data publisher's run id while the rows of process_data and
\* of model_lr are both in XCom under key run_id
C16_Witness ==
    \E e \in Execs :
        /\ HasRow(e, "model_lr", "run_id")
        /\ HasRow(e, "process_data", "run_id")
        /\ pc[e]["model_rf"] = "download_artifacts"
        /\ data[e]["model_rf"] = RowValue(e, "process_data", "run_id")
        /\ data[e]["model_rf"] # RowValue(e, "model_lr", "run_id")
\* the step is one of task t of DAG run e
Acting(e, t) == pc'[e][t] # pc[e][t] \/ ti'[e][t] # ti[e][t]

\* C17: a step that changes the BestModel registry (its versions or their stages)
\* is a step of register_best_model; a step that creates a Run or changes a Run
\* (metric, param, artifact, status) is a step of process_data, model_lr or
\* model_rf, never of get_best_model or register_best_model.
C17_Frame ==
    [][/\ versions' # versions => \E e \in Execs : Acting(e, "register_best_model")
       /\ runs' # runs =>
            /\ \E e \in Execs : \E t \in {"process_data", "model_lr", "model_rf"} : Acting(e, t)
            /\ \A e \in Execs : ~Acting(e, "get_best_model") /\ ~Acting(e, "register_best_model")
       /\ (\E e \in Execs : \E t \in Tasks \ {"register_best_model"} : Acting(e, t))
            => versions' = versions]_vars

\* the DAG run is over: six runs from the first three steps, one version from the last
C17_Witness ==
    \E e \in Execs :
        /\ \A t \in Tasks : Succeeded(e, t)
        /\ Len(versions) = 1
        /\ versions[1].stage = "Production"
        /\ \A id \in DOMAIN runs : runs[id].owner[2] \in {"process_data", "model_lr", "model_rf"}
        /\ Cardinality(DOMAIN runs) = 6
RunsOf(e, t) == {id \in DOMAIN runs : runs[id].owner = <<e, t>>}

\* C18: model_rf's run_id message exists only once make_rf has completed, and
\* then holds all 4 run ids: while make_rf is running, and after it failed with
\* k < 4 forest Runs, there is no run_id message of model_rf, so get_best_model
\* never sees a partial list; the Runs created before the failure stay in the
\* tracking service.
C18_AllOrNothing ==
    /\ [](\A e \in Execs :
            /\ ti[e]["model_rf"] \in {"none", "running", "failed", "upstream_failed"}
                    => ~HasRow(e, "model_rf", "run_id")
            /\ HasRow(e, "model_rf", "run_id") => Len(RowValue(e, "model_rf", "run_id")) = 4
            /\ ti[e]["model_rf"] = "failed" =>
                    /\ Cardinality(RunsOf(e, "model_rf")) <= 4
                    /\ NotRun(e, "get_best_model"))
    /\ [][\A id \in DOMAIN runs : id \in DOMAIN runs']_vars

\* make_rf failed in its second run: one FINISHED and one FAILED forest run are in
\* the tracking service, nothing was published
C18_Witness ==
    \E e \in Execs :
        /\ ti[e]["model_rf"] = "failed"
        /\ Cardinality(RunsOf(e, "model_rf")) = 2
        /\ \E id \in RunsOf(e, "model_rf") : runs[id].status = "FINISHED"
        /\ \E id \in RunsOf(e, "model_rf") : runs[id].status = "FAILED"
        /\ ~HasRow(e, "model_rf", "run_id")
        /\ ti[e]["get_best_model"] = "upstream_failed"
\* DAG run e is over with register_best_model successful, it created 6 runs (1 by
\* process_data, 1 by model_lr, 4 by model_rf) and one BestModel version, in
\* stage Production
Promoted(e) ==
    /\ \A t \in Tasks : Succeeded(e, t)
    /\ Cardinality(RunsOf(e, "process_data")) = 1
    /\ Cardinality(RunsOf(e, "model_lr")) = 1
    /\ Cardinality(RunsOf(e, "model_rf")) = 4
    /\ Cardinality({id \in DOMAIN runs : runs[id].owner[1] = e}) = 6
    /\ Cardinality(VersionsOf(e)) = 1
    /\ \A v \in VersionsOf(e) : versions[v].stage = "Production"

\* C19: when the scheduler and the workers keep running and no statement raises,
\* every scheduled DAG run eventually is, and stays, promoted: all five tasks
\* succeeded, the DAG run created exactly 6 runs (1 data, 1 linear, 4 forest) and
\* registered exactly one BestModel version.
C19_EventuallyPromoted == <>[](\A e \in Execs : Promoted(e))

\* the last scheduled DAG run is promoted, and every run it created is FINISHED
C19_Witness ==
    /\ dagruns = schedule
    /\ \A e \in Execs : Promoted(e)
    /\ \A id \in DOMAIN runs : runs[id].status = "FINISHED"
    /\ Cardinality(DOMAIN runs) = 6 * schedule
    /\ Len(versions) = schedule
====
